---- MODULE Spec2Model ----
(***************************************************************************)
(* Bollinger-band regime and signal script (test-zhongxinjinshu-history.py)*)
(* as a state machine.  One behaviour is one run of the script over one    *)
(* fetched price series: the arrays CLOSE, up, mid, lower are the inputs,  *)
(* pc is the position in the script, the remaining variables are the       *)
(* script's own variables and what it printed.                             *)
(*                                                                         *)
(* Numbers are numpy float64 values, modelled as exact rationals plus the  *)
(* three non-finite values: comparisons with NaN are false, x/0 is +-inf   *)
(* and 0/0 is NaN (numpy warns, it does not raise).  Rounding error of the *)
(* binary representation is not modelled.                                  *)
(***************************************************************************)
EXTENDS Integers, Sequences, FiniteSets

(***************************************************************************)
(* float64 values                                                          *)
(***************************************************************************)
RECURSIVE GCD(_, _)
GCD(a, b) == IF b = 0 THEN a ELSE GCD(b, a % b)

Abs(x) == IF x < 0 THEN -x ELSE x

Sign(x) == IF x > 0 THEN 1 ELSE IF x < 0 THEN -1 ELSE 0

NaN == [k |-> "nan", n |-> 0, d |-> 1]

Inf(s) == [k |-> "inf", n |-> s, d |-> 1]

\* the rational n/d in lowest terms with a positive denominator
Fin(n, d) ==
    LET g == GCD(Abs(n), Abs(d))
        s == Sign(d)
    IN  [k |-> "fin", n |-> (s * n) \div g, d |-> (s * d) \div g]

Num(i) == [k |-> "fin", n |-> i, d |-> 1]

IsNaN(x) == x.k = "nan"

IsFin(x) == x.k = "fin"

FSign(x) == Sign(x.n)

FSub(a, b) ==
    IF IsNaN(a) \/ IsNaN(b) THEN NaN
    ELSE IF a.k = "inf" /\ b.k = "inf" THEN (IF a.n = b.n THEN NaN ELSE a)
    ELSE IF a.k = "inf" THEN a
    ELSE IF b.k = "inf" THEN Inf(-b.n)
    ELSE Fin(a.n * b.d - b.n * a.d, a.d * b.d)

FMul(a, b) ==
    IF IsNaN(a) \/ IsNaN(b) THEN NaN
    ELSE IF a.k = "inf" \/ b.k = "inf"
         THEN (IF FSign(a) * FSign(b) = 0 THEN NaN ELSE Inf(FSign(a) * FSign(b)))
    ELSE Fin(a.n * b.n, a.d * b.d)

FDiv(a, b) ==
    IF IsNaN(a) \/ IsNaN(b) THEN NaN
    ELSE IF a.k = "inf" /\ b.k = "inf" THEN NaN
    ELSE IF a.k = "inf" THEN Inf(IF FSign(b) < 0 THEN -a.n ELSE a.n)
    ELSE IF b.k = "inf" THEN Num(0)
    ELSE IF b.n = 0 THEN (IF a.n = 0 THEN NaN ELSE Inf(Sign(a.n)))
    ELSE Fin(a.n * b.d, a.d * b.n)

\* a < b on non-NaN values
Less(a, b) ==
    IF a.k = "inf" THEN a.n < 0 /\ ~(b.k = "inf" /\ b.n < 0)
    ELSE IF b.k = "inf" THEN b.n > 0
    ELSE a.n * b.d < b.n * a.d

FLt(a, b) == ~IsNaN(a) /\ ~IsNaN(b) /\ Less(a, b)

FGt(a, b) == FLt(b, a)

FLe(a, b) == ~IsNaN(a) /\ ~IsNaN(b) /\ ~Less(b, a)

FGe(a, b) == FLe(b, a)

(***************************************************************************)
(* numpy arrays: functions on 0 .. len-1, with Python's negative indices   *)
(***************************************************************************)
len(arr) == Cardinality(DOMAIN arr)

InRange(arr, i) == IF i < 0 THEN len(arr) + i >= 0 ELSE i < len(arr)

At(arr, i) == arr[IF i < 0 THEN len(arr) + i ELSE i]

\* the indices of arr[-k:]
LastIdx(arr, k) == { i \in DOMAIN arr : i >= len(arr) - k }

(***************************************************************************)
(* The fetched series and BOLL(CLOSE).  BOLL (MyTT, window W, multiplier   *)
(* 2) is not part of the script: its contract is taken from the            *)
(* specification: entry i is undefined (NaN) for i < W-1, otherwise        *)
(* upper = mid + 2 sd and lower = mid - 2 sd of the W closes ending at i,  *)
(* so upper >= mid >= lower, a zero-width band means W equal closes, and a *)
(* close lies within sqrt(W-1) sd of its own window's mean.                *)
(* A bar is [c: close, m: mid, h: 2 sd].  The script reads only the last   *)
(* five bars; the bars before them are held at BaseBar.                    *)
(***************************************************************************)
W == 20

MaxN == 24

BaseBar == [c |-> 100, m |-> 100, h |-> 10]

NoBar == [c |-> 0, m |-> 0, h |-> 0]

\* closes of a bar whose band is undefined
UndefCloses == {100, 105}

\* closes of the bar at position p from the end (1 = latest bar)
Closes(p) ==
    CASE p = 1 -> {88, 90, 93, 97, 100, 103, 106, 110, 112}
      [] p = 2 -> {85, 90, 95, 100, 105, 110, 115}
      [] OTHER -> {95, 100, 105}

\* (mid, 2 sd) of the band at position p from the end
Bands(p) ==
    CASE p = 5 -> { [m |-> 98, h |-> 9], [m |-> 100, h |-> 9], [m |-> 100, h |-> 10],
                    [m |-> 100, h |-> 11], [m |-> 102, h |-> 12], [m |-> 100, h |-> 0] }
      [] p = 2 -> { [m |-> 100, h |-> 10], [m |-> 96, h |-> 9], [m |-> 100, h |-> 0] }
      [] p = 1 -> { [m |-> 100, h |-> 10], [m |-> 100, h |-> 0] }
      [] OTHER -> { [m |-> 100, h |-> 10] }

\* a close is within sqrt(W-1) population sd of the mean of its window
Realistic(b) == 4 * (b.c - b.m) * (b.c - b.m) <= (W - 1) * b.h * b.h

Defined(i) == i >= W - 1

\* the bars that may stand at position p from the end of a series of n bars
Choices(p, n) ==
    IF n - p < 0 THEN {NoBar}
    ELSE IF ~Defined(n - p)
         THEN { [c |-> c, m |-> BaseBar.m, h |-> BaseBar.h] : c \in UndefCloses }
    ELSE { b \in { [c |-> c, m |-> bd.m, h |-> bd.h] : c \in Closes(p), bd \in Bands(p) } :
             Realistic(b) }

\* a zero-width band at position p: every later-read close of its window equals its mid
WindowsAgree(n, bs) ==
    \A p \in 1..5 : \A q \in 1..5 :
        (p < q /\ n - q >= 0 /\ Defined(n - p) /\ bs[p].h = 0) => bs[q].c = bs[p].m

BarAt(n, bs, i) == IF n - i <= 5 THEN bs[n - i] ELSE BaseBar

MA(n, bs) == [i \in 0..(n - 1) |-> IF Defined(i) THEN Num(BarAt(n, bs, i).m) ELSE NaN]

BOLL(n, bs) ==
    [ UPPER |-> [i \in 0..(n - 1) |->
                    IF Defined(i) THEN Num(BarAt(n, bs, i).m + BarAt(n, bs, i).h) ELSE NaN],
      MID   |-> MA(n, bs),
      LOWER |-> [i \in 0..(n - 1) |->
                    IF Defined(i) THEN Num(BarAt(n, bs, i).m - BarAt(n, bs, i).h) ELSE NaN] ]

(***************************************************************************)
(* State                                                                   *)
(***************************************************************************)
VARIABLES
    CLOSE, up, mid, lower,                                  \* lines 14-19
    pc, fault,
    current_price, current_up, current_mid, current_lower,  \* lines 24-27
    position,                                               \* lines 36-43
    current_width, prev_width, trend,                       \* lines 47-56
    mid_slope, mid_trend,                                   \* lines 60-66
    prev_price, prev_up, prev_mid, prev_lower,              \* lines 73-74
    signals,                                                \* lines 77-124
    percent_b, boll_width, width_change, above_mid,         \* lines 94, 111-112, 120
    printed, advice                                         \* lines 127-145

inputs == <<CLOSE, up, mid, lower>>

current == <<current_price, current_up, current_mid, current_lower>>

regime == <<position, current_width, prev_width, trend, mid_slope, mid_trend>>

prev == <<prev_price, prev_up, prev_mid, prev_lower>>

stage == <<signals, percent_b, boll_width, width_change, above_mid>>

out == <<printed, advice>>

vars == <<inputs, pc, fault, current, regime, prev, stage, out>>

\* a variable the script has not assigned yet
Unset == [k |-> "unset", n |-> 0, d |-> 1]

Init ==
    /\ \E n \in 0..MaxN :
       \E b1 \in Choices(1, n), b2 \in Choices(2, n), b3 \in Choices(3, n),
          b4 \in Choices(4, n), b5 \in Choices(5, n) :
          LET bs == <<b1, b2, b3, b4, b5>> IN
          /\ WindowsAgree(n, bs)
          /\ CLOSE = [i \in 0..(n - 1) |-> Num(BarAt(n, bs, i).c)]
          /\ up = BOLL(n, bs).UPPER
          /\ mid = BOLL(n, bs).MID
          /\ lower = BOLL(n, bs).LOWER
    /\ pc = "start"
    /\ fault = "none"
    /\ current_price = Unset /\ current_up = Unset
    /\ current_mid = Unset /\ current_lower = Unset
    /\ position = "unset"
    /\ current_width = Unset /\ prev_width = Unset /\ trend = "unset"
    /\ mid_slope = Unset /\ mid_trend = "unset"
    /\ prev_price = Unset /\ prev_up = Unset /\ prev_mid = Unset /\ prev_lower = Unset
    /\ signals = <<>>
    /\ percent_b = Unset /\ boll_width = Unset /\ width_change = Unset
    /\ above_mid = -1
    /\ printed = <<>>
    /\ advice = "unset"

(***************************************************************************)
(* Regime stage, lines 23-67                                               *)
(***************************************************************************)
\* lines 24-27: the latest bar; an empty array raises IndexError
ReadCurrent ==
    /\ pc = "start"
    /\ IF InRange(CLOSE, -1) /\ InRange(up, -1) /\ InRange(mid, -1) /\ InRange(lower, -1)
       THEN /\ current_price' = At(CLOSE, -1)
            /\ current_up' = At(up, -1)
            /\ current_mid' = At(mid, -1)
            /\ current_lower' = At(lower, -1)
            /\ pc' = "position"
            /\ fault' = fault
       ELSE /\ pc' = "fault"
            /\ fault' = "IndexError"
            /\ UNCHANGED current
    /\ UNCHANGED <<inputs, regime, prev, stage, out>>

\* lines 36-43
PositionOf(price, u, m, l) ==
    IF FGt(price, u) THEN "above-upper"
    ELSE IF FGt(price, m) THEN "upper-half"
    ELSE IF FGt(price, l) THEN "lower-half"
    ELSE "below-lower"

Classify ==
    /\ pc = "position"
    /\ position' = PositionOf(current_price, current_up, current_mid, current_lower)
    /\ pc' = "width"
    /\ UNCHANGED <<inputs, fault, current, current_width, prev_width, trend,
                   mid_slope, mid_trend, prev, stage, out>>

\* line 47: boll_width = (up - lower) / mid, elementwise
WidthArray == [i \in DOMAIN mid |-> FDiv(FSub(up[i], lower[i]), mid[i])]

\* the lookback five bars before the latest
PrevWidthFiveBack(w) == IF len(w) >= 6 THEN At(w, -6) ELSE At(w, 0)

\* line 49: the width the latest one is compared with
PrevWidth(w) == IF len(w) >= 5 THEN At(w, -5) ELSE At(w, 0)

\* lines 51-56
TrendOf(cw, pw) ==
    IF FGt(cw, FMul(pw, Fin(105, 100))) THEN "expanding"
    ELSE IF FLt(cw, FMul(pw, Fin(95, 100))) THEN "contracting"
    ELSE "stable"

WidthTrend ==
    /\ pc = "width"
    /\ current_width' = At(WidthArray, -1)
    /\ prev_width' = PrevWidth(WidthArray)
    /\ trend' = TrendOf(current_width', prev_width')
    /\ pc' = "slope"
    /\ UNCHANGED <<inputs, fault, current, position, mid_slope, mid_trend,
                   prev, stage, out>>

\* line 60
MidSlope(m) == IF len(m) >= 5 THEN FSub(At(m, -1), At(m, -5)) ELSE Num(0)

\* lines 61-66
MidTrendOf(slope) ==
    IF FGt(slope, Num(0)) THEN "up"
    ELSE IF FLt(slope, Num(0)) THEN "down"
    ELSE "flat"

MidTrend ==
    /\ pc = "slope"
    /\ mid_slope' = MidSlope(mid)
    /\ mid_trend' = MidTrendOf(mid_slope')
    /\ pc' = "guard"
    /\ UNCHANGED <<inputs, fault, current, position, current_width, prev_width, trend,
                   prev, stage, out>>

(***************************************************************************)
(* Signal stage, lines 70-145                                              *)
(***************************************************************************)
\* lines 72-74: the previous bar, when there are at least two bars
ReadPrev ==
    /\ pc = "guard"
    /\ len(CLOSE) >= 2
    /\ prev_price' = At(CLOSE, -2)
    /\ prev_up' = At(up, -2)
    /\ prev_mid' = At(mid, -2)
    /\ prev_lower' = At(lower, -2)
    /\ pc' = "band"
    /\ UNCHANGED <<inputs, fault, current, regime, stage, out>>

\* lines 144-145
InsufficientData ==
    /\ pc = "guard"
    /\ ~(len(CLOSE) >= 2)
    /\ printed' = Append(printed, "insufficient-data")
    /\ pc' = "done"
    /\ UNCHANGED <<inputs, fault, current, regime, prev, stage, advice>>

Sig(tag) == [tag |-> tag, n |-> 0]

\* lines 78-85: the four band conditions, each on its own
Breakout(pp, pu, cp, cu) == FLe(pp, pu) /\ FGt(cp, cu)

Rejection(pp, pu, cp, cu) == FGe(pp, pu) /\ FLt(cp, cu)

Breakdown(pp, pl, cp, cl) == FGe(pp, pl) /\ FLt(cp, cl)

Rebound(pp, pl, cp, cl) == FLe(pp, pl) /\ FGt(cp, cl)

\* the four band checks as independent ifs
IndependentBandSignal(pp, pu, pl, cp, cu, cl) ==
    (IF Breakout(pp, pu, cp, cu) THEN <<Sig("breakout")>> ELSE <<>>)
        \o (IF Rejection(pp, pu, cp, cu) THEN <<Sig("rejection")>> ELSE <<>>)
        \o (IF Breakdown(pp, pl, cp, cl) THEN <<Sig("breakdown")>> ELSE <<>>)
        \o (IF Rebound(pp, pl, cp, cl) THEN <<Sig("rebound")>> ELSE <<>>)

\* lines 78-85: what the if/elif chain appends
BandSignal(pp, pu, pl, cp, cu, cl) ==
    IF Breakout(pp, pu, cp, cu) THEN <<Sig("breakout")>>
    ELSE IF Rejection(pp, pu, cp, cu) THEN <<Sig("rejection")>>
    ELSE IF Breakdown(pp, pl, cp, cl) THEN <<Sig("breakdown")>>
    ELSE IF Rebound(pp, pl, cp, cl) THEN <<Sig("rebound")>>
    ELSE <<>>

BandCross ==
    /\ pc = "band"
    /\ signals' = BandSignal(prev_price, prev_up, prev_lower,
                             current_price, current_up, current_lower)
    /\ pc' = "mid"
    /\ UNCHANGED <<inputs, fault, current, regime, prev,
                   percent_b, boll_width, width_change, above_mid, out>>

\* lines 88-91
Bullish(pp, pm, cp, cm) == FLe(pp, pm) /\ FGt(cp, cm)

\* the bearish check without its condition on the previous bar
BearishCurrentOnly(pp, pm, cp, cm) == FLt(cp, cm)

Bearish(pp, pm, cp, cm) == FGe(pp, pm) /\ FLt(cp, cm)

MidSignal(pp, pm, cp, cm) ==
    IF Bullish(pp, pm, cp, cm) THEN <<Sig("bullish")>>
    ELSE IF Bearish(pp, pm, cp, cm) THEN <<Sig("bearish")>>
    ELSE <<>>

MidCross ==
    /\ pc = "mid"
    /\ signals' = signals \o MidSignal(prev_price, prev_mid, current_price, current_mid)
    /\ pc' = "percent_b"
    /\ UNCHANGED <<inputs, fault, current, regime, prev,
                   percent_b, boll_width, width_change, above_mid, out>>

\* line 94
PercentB(cp, cu, cl) == FDiv(FSub(cp, cl), FSub(cu, cl))

\* lines 97-108
Bucket(pb) ==
    IF FGt(pb, Fin(9, 10)) THEN "near-upper"
    ELSE IF FGt(pb, Fin(7, 10)) THEN "strong-zone"
    ELSE IF FGt(pb, Fin(5, 10)) THEN "neutral-strong"
    ELSE IF FGt(pb, Fin(3, 10)) THEN "neutral-weak"
    ELSE IF FGt(pb, Fin(1, 10)) THEN "weak-zone"
    ELSE "near-lower"

\* the positional signal appended whether or not a crossing signal was
AlwaysPositional(sigs, pb) == <<Sig(Bucket(pb))>>

\* the positional signal left out when percent_b is NaN
DefinedPositional(sigs, pb) ==
    IF sigs = <<>> /\ ~IsNaN(pb) THEN <<Sig(Bucket(pb))>> ELSE <<>>

\* lines 96-108: a positional signal only when the list is still empty
PositionalSignal(sigs, pb) == IF sigs = <<>> THEN <<Sig(Bucket(pb))>> ELSE <<>>

Positional ==
    /\ pc = "percent_b"
    /\ percent_b' = PercentB(current_price, current_up, current_lower)
    /\ signals' = signals \o PositionalSignal(signals, percent_b')
    /\ pc' = "width_change"
    /\ UNCHANGED <<inputs, fault, current, regime, prev,
                   boll_width, width_change, above_mid, out>>

\* line 112
WidthChange(bw) ==
    IF len(mid) >= 5
    THEN FDiv(bw, FDiv(FSub(At(up, -5), At(lower, -5)), At(mid, -5)))
    ELSE Num(1)

\* lines 114-117
WidthRegime(wc) ==
    IF FGt(wc, Fin(11, 10)) THEN <<Sig("expanding")>>
    ELSE IF FLt(wc, Fin(9, 10)) THEN <<Sig("contracting")>>
    ELSE <<>>

WidthSignal ==
    /\ pc = "width_change"
    /\ boll_width' = FDiv(FSub(current_up, current_lower), current_mid)
    /\ width_change' = WidthChange(boll_width')
    /\ signals' = signals \o WidthRegime(width_change')
    /\ pc' = "persistence"
    /\ UNCHANGED <<inputs, fault, current, regime, prev, percent_b, above_mid, out>>

\* line 120: sum(CLOSE[-5:] > mid[-5:])
AboveMid == Cardinality({ i \in LastIdx(CLOSE, 5) : FGt(CLOSE[i], mid[i]) })

\* lines 121-124
Continuation(am) ==
    IF am >= 4 THEN <<[tag |-> "strong-continuation", n |-> am]>>
    ELSE IF am <= 1 THEN <<[tag |-> "weak-continuation", n |-> 5 - am]>>
    ELSE <<>>

Persistence ==
    /\ pc = "persistence"
    /\ above_mid' = AboveMid
    /\ signals' = signals \o Continuation(above_mid')
    /\ pc' = "output"
    /\ UNCHANGED <<inputs, fault, current, regime, prev,
                   percent_b, boll_width, width_change, out>>

\* lines 127-131
Lines(sigs) == IF sigs # <<>> THEN [i \in 1..Len(sigs) |-> sigs[i].tag]
               ELSE <<"no-crossing-signal">>

Output ==
    /\ pc = "output"
    /\ printed' = printed \o Lines(signals)
    /\ pc' = "advisory"
    /\ UNCHANGED <<inputs, fault, current, regime, prev, stage, advice>>

\* lines 135-142
Advice(pb, wc) ==
    IF FGt(pb, Fin(9, 10)) /\ FGt(wc, Fin(105, 100)) THEN "reduce"
    ELSE IF FLt(pb, Fin(1, 10)) /\ FGt(wc, Fin(105, 100)) THEN "watch-rebound"
    ELSE IF FLt(Fin(3, 10), pb) /\ FLt(pb, Fin(7, 10)) /\ FLt(wc, Fin(9, 10))
         THEN "range-bound"
    ELSE "follow-trend"

Advisory ==
    /\ pc = "advisory"
    /\ advice' = Advice(percent_b, width_change)
    /\ printed' = Append(printed, advice')
    /\ pc' = "done"
    /\ UNCHANGED <<inputs, fault, current, regime, prev, stage>>

Next ==
    \/ ReadCurrent
    \/ Classify
    \/ WidthTrend
    \/ MidTrend
    \/ ReadPrev
    \/ InsufficientData
    \/ BandCross
    \/ MidCross
    \/ Positional
    \/ WidthSignal
    \/ Persistence
    \/ Output
    \/ Advisory

Spec == Init /\ [][Next]_vars

(***************************************************************************)
(* Vocabulary of the claims, stated on the input arrays                    *)
(***************************************************************************)
N == len(CLOSE)

Tags(sigs) == { sigs[i].tag : i \in 1..Len(sigs) }

CrossingTags == {"breakout", "rejection", "breakdown", "rebound", "bullish", "bearish"}

PositionalTags == {"near-upper", "strong-zone", "neutral-strong", "neutral-weak",
                   "weak-zone", "near-lower"}

WidthTags == {"expanding", "contracting"}

PersistenceTags == {"strong-continuation", "weak-continuation"}

TableAdvice == {"reduce", "watch-rebound", "range-bound", "follow-trend"}

\* the script is past the given step
AfterCrossing == pc \in {"percent_b", "width_change", "persistence", "output", "advisory", "done"}

AfterPositional == pc \in {"width_change", "persistence", "output", "advisory", "done"}

AfterWidthSignal == pc \in {"persistence", "output", "advisory", "done"}

AfterPersistence == pc \in {"output", "advisory", "done"}

AfterRegime == pc \in {"guard", "band", "mid"} \/ AfterCrossing

Printed(line) == \E i \in 1..Len(printed) : printed[i] = line

\* 0-based bar i has a defined band triple
BandDefined(i) == i \in DOMAIN up /\ IsFin(up[i]) /\ IsFin(mid[i]) /\ IsFin(lower[i])

\* the last two bars both have defined bands
TwoDefinedBars == N >= 2 /\ BandDefined(N - 2) /\ BandDefined(N - 1)

\* the six conditions of the crossing detector on the last two bars
CondBreakout == FLe(CLOSE[N - 2], up[N - 2]) /\ FGt(CLOSE[N - 1], up[N - 1])

CondRejection == FGe(CLOSE[N - 2], up[N - 2]) /\ FLt(CLOSE[N - 1], up[N - 1])

CondBreakdown == FGe(CLOSE[N - 2], lower[N - 2]) /\ FLt(CLOSE[N - 1], lower[N - 1])

CondRebound == FLe(CLOSE[N - 2], lower[N - 2]) /\ FGt(CLOSE[N - 1], lower[N - 1])

CondBullish == FLe(CLOSE[N - 2], mid[N - 2]) /\ FGt(CLOSE[N - 1], mid[N - 1])

CondBearish == FGe(CLOSE[N - 2], mid[N - 2]) /\ FLt(CLOSE[N - 1], mid[N - 1])

AnyCrossing ==
    CondBreakout \/ CondRejection \/ CondBreakdown \/ CondRebound
        \/ CondBullish \/ CondBearish

\* percentB of the latest bar is defined: a defined band of non-zero width
PercentBDefined == N >= 1 /\ BandDefined(N - 1) /\ up[N - 1] # lower[N - 1]

\* the bucket of (price - lower) / (upper - lower), on the integers of the inputs
ExpectedBucket ==
    LET num == CLOSE[N - 1].n - lower[N - 1].n
        den == up[N - 1].n - lower[N - 1].n
    IN  IF 10 * num > 9 * den THEN "near-upper"
        ELSE IF 10 * num > 7 * den THEN "strong-zone"
        ELSE IF 10 * num > 5 * den THEN "neutral-strong"
        ELSE IF 10 * num > 3 * den THEN "neutral-weak"
        ELSE IF 10 * num > 1 * den THEN "weak-zone"
        ELSE "near-lower"

Positionals == { i \in 1..Len(signals) : signals[i].tag \in PositionalTags }

\* what the detector emits for the last two bars exchanged
Exchanged ==
    Tags(BandSignal(CLOSE[N - 1], up[N - 1], lower[N - 1],
                    CLOSE[N - 2], up[N - 2], lower[N - 2])
         \o MidSignal(CLOSE[N - 1], mid[N - 1], CLOSE[N - 2], mid[N - 2]))

\* the symmetry of one boundary, between its upward and its downward signal
Mirror(upward, downward) ==
    /\ upward \in Tags(signals) => downward \in Exchanged
    /\ downward \in Tags(signals) => upward \in Exchanged

\* neither of the last two closes lies exactly on the given line of its own bar
OffLine(line) == CLOSE[N - 2] # line[N - 2] /\ CLOSE[N - 1] # line[N - 1]

DegenerateBand == N >= 1 /\ BandDefined(N - 1) /\ up[N - 1] = lower[N - 1]

InsufficientHistory == N < 2 \/ ~BandDefined(N - 2) \/ ~BandDefined(N - 1)

Last5 == { i \in 0..(N - 1) : i >= N - 5 }

AboveCount == Cardinality({ i \in Last5 : FGt(CLOSE[i], mid[i]) })

BelowCount == Cardinality({ i \in Last5 : FLt(CLOSE[i], mid[i]) })

Width(i) == FDiv(FSub(up[i], lower[i]), mid[i])

\* the lookback index and the width ratio as C7 states them
ClaimedLookback == IF N >= 6 THEN N - 1 - 5 ELSE 0

ClaimedRatio == FDiv(Width(N - 1), Width(ClaimedLookback))

Rank(tag) ==
    IF tag \in CrossingTags THEN 1
    ELSE IF tag \in PositionalTags THEN 2
    ELSE IF tag \in WidthTags THEN 3
    ELSE 4

(***************************************************************************)
(* Claims                                                                  *)
(***************************************************************************)

\* C1 (precedence): in a run with at least 2 bars, once the positional step is
\* done the signal list holds no percentB-bucket signal if one of the six
\* crossing conditions holds, and exactly one, of the bucket percentB falls in,
\* if none holds and percentB is defined.
C1_Precedence ==
    (AfterPositional /\ N >= 2) =>
        /\ AnyCrossing => Positionals = {}
        /\ (~AnyCrossing /\ PercentBDefined) =>
              /\ Cardinality(Positionals) = 1
              /\ \A i \in Positionals : signals[i].tag = ExpectedBucket

\* C1 witness: a finished run in which a crossing fired while percentB is
\* defined, and the list holds the crossing signal and no positional signal.
C1_Witness ==
    /\ pc = "done" /\ N >= 2
    /\ AnyCrossing /\ PercentBDefined
    /\ Tags(signals) \cap CrossingTags # {}
    /\ Positionals = {}

\* C2 as claimed (independence): with defined bands on the last two bars, each
\* of the six crossing signals is in the list exactly when its own condition
\* holds, whatever the other five do.
C2_Independent ==
    (AfterCrossing /\ TwoDefinedBars) =>
        /\ "breakout" \in Tags(signals) <=> CondBreakout
        /\ "rejection" \in Tags(signals) <=> CondRejection
        /\ "breakdown" \in Tags(signals) <=> CondBreakdown
        /\ "rebound" \in Tags(signals) <=> CondRebound
        /\ "bullish" \in Tags(signals) <=> CondBullish
        /\ "bearish" \in Tags(signals) <=> CondBearish

\* C2 amended: the four band checks are one first-match chain in the order
\* breakout, rejection, breakdown, rebound: a band signal is in the list exactly
\* when its condition holds and no earlier band condition does.  The two midline
\* checks are a second chain, independent of the first: each midline signal is
\* in the list exactly when its own condition holds.
C2_FirstMatchChains ==
    (AfterCrossing /\ TwoDefinedBars) =>
        /\ "breakout" \in Tags(signals) <=> CondBreakout
        /\ "rejection" \in Tags(signals) <=> (CondRejection /\ ~CondBreakout)
        /\ "breakdown" \in Tags(signals) <=>
              (CondBreakdown /\ ~CondBreakout /\ ~CondRejection)
        /\ "rebound" \in Tags(signals) <=>
              (CondRebound /\ ~CondBreakout /\ ~CondRejection /\ ~CondBreakdown)
        /\ "bullish" \in Tags(signals) <=> CondBullish
        /\ "bearish" \in Tags(signals) <=> CondBearish

\* C2 witness: prev >= prevUpper and current < currentLower; of the two band
\* signals whose conditions hold only the upper rejection is emitted, and the
\* midline bearish cross beside it.
C2_Witness ==
    /\ pc = "done" /\ TwoDefinedBars
    /\ CondRejection /\ CondBreakdown /\ CondBearish
    /\ Tags(signals) \cap CrossingTags = {"rejection", "bearish"}

\* C3 as claimed (symmetry): with defined bands on the last two bars, if the run
\* emits the upward signal of a boundary (breakout, rebound, bullish cross) then
\* the detector on the same two bars exchanged emits the downward signal of that
\* boundary (rejection, breakdown, bearish cross), and conversely, closes exactly
\* on a boundary included.
C3_Symmetric ==
    (AfterCrossing /\ TwoDefinedBars) =>
        /\ Mirror("breakout", "rejection")
        /\ Mirror("rebound", "breakdown")
        /\ Mirror("bullish", "bearish")

\* C3 amended: the symmetry holds for a boundary when neither of the two closes
\* lies exactly on that boundary of its own bar; for the lower boundary, neither
\* close may lie exactly on the upper band either (the band checks are one
\* chain: on the exchanged bars an upper rejection takes the place of the lower
\* breakdown).
C3_SymmetricOffBoundary ==
    (AfterCrossing /\ TwoDefinedBars) =>
        /\ OffLine(up) => Mirror("breakout", "rejection")
        /\ (OffLine(lower) /\ OffLine(up)) => Mirror("rebound", "breakdown")
        /\ OffLine(mid) => Mirror("bullish", "bearish")

\* C3 witness: a finished run with an upper breakout, no close on the upper
\* band, whose exchanged bars give an upper rejection.
C3_Witness ==
    /\ pc = "done" /\ TwoDefinedBars
    /\ OffLine(up)
    /\ "breakout" \in Tags(signals)
    /\ "rejection" \in Exchanged

\* C4 as claimed (degenerate band): when the latest upper band equals the
\* latest lower band, a finished run has reported "insufficient data for
\* advisory", holds no percentB-bucket signal and printed none of the four
\* advisories of the rule table.
C4_DegenerateBand ==
    (pc = "done" /\ DegenerateBand) =>
        /\ Printed("insufficient-data-for-advisory")
        /\ Positionals = {}
        /\ advice \notin TableAdvice

\* C5 as claimed (insufficient history): with fewer than 2 bars whose bands are
\* defined (fewer than 2 bars, or the band of the previous bar undefined), a
\* finished run has reported insufficient history and emitted no signal.
C5_InsufficientHistory ==
    (pc = "done" /\ InsufficientHistory) =>
        /\ Printed("insufficient-data")
        /\ signals = <<>>

\* C6 as claimed (persistence): over the last 5 closes against the middle band
\* at the same indices, "strong continuation" is emitted exactly when at least 4
\* closes are above the middle band and "weak continuation" exactly when at
\* least 4 closes are below it; the count in the message is the number of such
\* bars.
C6_Persistence ==
    (AfterPersistence /\ N >= 2) =>
        /\ (\E i \in 1..Len(signals) : signals[i].tag = "strong-continuation")
              <=> AboveCount >= 4
        /\ (\E i \in 1..Len(signals) : signals[i].tag = "weak-continuation")
              <=> BelowCount >= 4
        /\ \A i \in 1..Len(signals) :
              /\ signals[i].tag = "strong-continuation" => signals[i].n = AboveCount
              /\ signals[i].tag = "weak-continuation" => signals[i].n = BelowCount

\* C7 as claimed (width lookback): for N bars the lookback index is N-1-5 when
\* N >= 6 and 0 otherwise; the trend compares width[N-1] with the width there,
\* the aggregator's ratio is width[N-1] over the width there, and the midline
\* slope is mid[N-1] minus mid there; the trend, the slope direction, the
\* width-regime signal and the advisory are the ones these values give.
C7_LookbackFive ==
    /\ (AfterRegime /\ N >= 1) =>
          /\ trend = TrendOf(Width(N - 1), Width(ClaimedLookback))
          /\ mid_trend = MidTrendOf(FSub(mid[N - 1], mid[ClaimedLookback]))
    /\ (AfterWidthSignal /\ N >= 2) =>
          /\ "expanding" \in Tags(signals) <=> FGt(ClaimedRatio, Fin(11, 10))
          /\ "contracting" \in Tags(signals) <=> FLt(ClaimedRatio, Fin(9, 10))
    /\ (pc = "done" /\ N >= 2) => advice = Advice(percent_b, ClaimedRatio)

\* C7 amended: the lookback index is N-5 (four bars before the latest), used
\* when N >= 5.  The trend compares width[N-1] with width[N-5] when N >= 5 and
\* with width[0] when N < 5; the aggregator's ratio is width[N-1] / width[N-5]
\* when N >= 5 and the constant 1 when N < 5; the midline slope is
\* mid[N-1] - mid[N-5] when N >= 5 and 0 when N < 5.
C7_LookbackFour ==
    /\ (AfterRegime /\ N >= 1) =>
          /\ current_width = Width(N - 1)
          /\ prev_width = (IF N >= 5 THEN Width(N - 5) ELSE Width(0))
          /\ mid_slope = (IF N >= 5 THEN FSub(mid[N - 1], mid[N - 5]) ELSE Num(0))
    /\ (AfterWidthSignal /\ N >= 2) =>
          width_change = (IF N >= 5 THEN FDiv(Width(N - 1), Width(N - 5)) ELSE Num(1))

\* C7 witness: a finished run of at least 6 bars whose bar N-5 has a defined
\* band of another width than bar N-6 and another mid than the latest bar; the
\* ratio is the finite one against bar N-5 and the slope is not zero.
C7_Witness ==
    /\ pc = "done" /\ N >= 6
    /\ BandDefined(N - 5) /\ BandDefined(N - 1)
    /\ IsFin(width_change) /\ width_change # Num(1)
    /\ width_change = FDiv(Width(N - 1), Width(N - 5))
    /\ mid_slope # Num(0)
    /\ Width(N - 5) # Width(N - 6)

\* C8 as claimed (undefined bands are never read as values): when the band of
\* the latest bar is undefined, the regime stage reports no position region, no
\* width trend and no midline slope direction.
C8_UndefinedNotClassified ==
    (AfterRegime /\ N >= 1 /\ ~BandDefined(N - 1)) =>
        /\ position \notin {"above-upper", "upper-half", "lower-half", "below-lower"}
        /\ trend \notin {"expanding", "contracting", "stable"}
        /\ mid_trend \notin {"up", "down", "flat"}

\* C9 as claimed (no crash on short input): a run over a series of 0 or 1 bars
\* raises no fault, and when it ends it has reported insufficient data.
C9_NoCrashOnShortInput ==
    N <= 1 =>
        /\ fault = "none"
        /\ pc # "fault"
        /\ pc = "done" => Printed("insufficient-data")

\* C10: in a run with at least 2 bars the list is non-empty once the positional
\* step is done (right after it, it holds crossing signals and no positional
\* one, or exactly one positional signal and no crossing), so the fallback line
\* "no crossing signal" is never printed; and the list is always ordered
\* crossing, positional, width-regime, persistence.
C10_NonEmptyOrdered ==
    /\ (AfterPositional /\ N >= 2) => signals # <<>>
    /\ (pc = "width_change" /\ N >= 2) =>
          \/ Tags(signals) \cap CrossingTags # {} /\ Positionals = {}
          \/ Tags(signals) \cap CrossingTags = {} /\ Cardinality(Positionals) = 1
    /\ ~Printed("no-crossing-signal")
    /\ \A i \in 1..Len(signals) : \A j \in 1..Len(signals) :
          i < j => Rank(signals[i].tag) <= Rank(signals[j].tag)

\* C10 witness: a finished run whose list holds a positional, a width-regime and
\* a persistence signal in this order, printed line by line before the advisory.
C10_Witness ==
    /\ pc = "done" /\ N >= 2
    /\ Len(signals) = 3
    /\ signals[1].tag \in PositionalTags
    /\ signals[2].tag \in WidthTags
    /\ signals[3].tag \in PersistenceTags
    /\ Len(printed) = 4
    /\ printed[4] = advice

====
